---------------------------- MODULE Spec2Model ----------------------------
(***************************************************************************)
(* A model of analyze_research_trends (src/server.py): the paginated       *)
(* retrieval loop against the NIH Reporter search endpoint, the            *)
(* aggregation of the retrieved projects along four dimensions, the        *)
(* ranking and the assembly of the summary.                                *)
(*                                                                         *)
(* The handler blocks only inside make_nih_api_request, so one action      *)
(* runs the handler from one page response to the next request (or to its  *)
(* return).                                                                *)
(***************************************************************************)
EXTENDS Integers, Sequences, FiniteSets, TLC

VARIABLES args, max_projects, pc, offset, all_projects, requests, responses,
          by_agency, by_activity, by_org, by_year, title_words, result,
          invoked, other

\* All but the last are the state of one call_tool invocation: its
\* arguments, the locals of the handler it runs, the requests it has sent
\* and the responses it got, the handlers it has invoked, and what it
\* hands back.  `other` holds the same for a second invocation while this
\* one runs.
vars == <<args, max_projects, pc, offset, all_projects, requests, responses,
          by_agency, by_activity, by_org, by_year, title_words, result,
          invoked, other>>

-----------------------------------------------------------------------------
(* Bounds of the model. *)

\* Lengths of the arbitrary-content pages the source serves in SpecAgg.
MaxRecs == 3
\* Page sizes served in Spec lie within PageSlack of 0 and of the requested limit.
PageSlack == 1
\* A source that ignores the requested limit returns up to Over records too many.
Over == 1
\* Organizations the records of SpecTop are spread over (more than TopOrgs).
MaxOrgs == 12
\* Distinct qualifying words the titles of SpecTop draw on (more than TopThemes).
MaxWords == 22

(* Program constants. *)
batch_size == 500
HardCap == 2000
DefaultMaxProjects == 500
TopOrgs == 10
TopThemes == 20

Min(a, b) == IF a < b THEN a ELSE b

-----------------------------------------------------------------------------
(* Python values.  Every scalar has the same shape so that any two can be   *)
(* compared: t is the type tag, s the text of a str, n the value of an int. *)

Absent == [t |-> "absent", s |-> "", n |-> 0]   \* the key is not in the dict
None == [t |-> "none", s |-> "", n |-> 0]       \* JSON null
Obj == [t |-> "obj", s |-> "", n |-> 0]         \* a nested JSON object
PyStr(x) == [t |-> "str", s |-> x, n |-> 0]
PyInt(x) == [t |-> "int", s |-> "", n |-> x]
\* The outcome of an expression that raises; s names the exception.
Raise(x) == [t |-> "raise", s |-> x, n |-> 0]

\* dict.get(key, default): the default only when the key is absent; a key
\* that is present with a null value yields None.
DictGet(v, default) == IF v.t = "absent" THEN default ELSE v

\* A title: absent, null, or a str held as its sequence of characters.
NoTitle == [t |-> "absent", chars |-> <<>>]
NullTitle == [t |-> "none", chars |-> <<>>]
Title(cs) == [t |-> "str", chars |-> cs]

\* One project of a "results" list.  agency_code is the "code" member of
\* agency_ic_admin and org_name the "org_name" member of organization; they
\* are read only when the enclosing member is an object.
Project(ag, code, act, org, name, fy, amt, title) ==
    [agency_ic_admin |-> ag, agency_code |-> code, activity_code |-> act,
     organization |-> org, org_name |-> name, fiscal_year |-> fy,
     award_amount |-> amt, project_title |-> title]

-----------------------------------------------------------------------------
(* The record source. *)

CancerImaging == <<"C", "a", "n", "c", "e", "r", " ", "I", "m", "a", "g", "i", "n", "g", " ", "S", "t", "u", "d", "y">>
CancerPrevention == <<"C", "a", "n", "c", "e", "r", " ", "P", "r", "e", "v", "e", "n", "t", "i", "o", "n", " ", "T", "r", "i", "a", "l">>
DiabetesGenomics == <<"D", "i", "a", "b", "e", "t", "e", "s", " ", "G", "e", "n", "o", "m", "i", "c", "s">>
WithMri == <<"W", "i", "t", "h", " ", "M", "R", "I", ":", " ", "T", "-", "c", "e", "l", "l", " ", "d", "a", "t", "a">>

\* The projects the source of Spec holds, in award-notice order; position i
\* of its result list is Catalogue[((i - 1) % Len(Catalogue)) + 1].
Catalogue ==
    << Project(Obj, PyStr("NCI"), PyStr("R01"), Obj, PyStr("MIT"), PyInt(2021), PyInt(100000), Title(CancerImaging)),
       Project(Obj, PyStr("NCI"), PyStr("U01"), Obj, PyStr("UCSF"), PyInt(2020), PyInt(200000), Title(CancerPrevention)),
       Project(Obj, PyStr("NIDDK"), PyStr("R01"), Obj, PyStr("MIT"), PyInt(2021), PyInt(50000), Title(DiabetesGenomics)) >>

SourceRecord(i) == Catalogue[((i - 1) % Len(Catalogue)) + 1]

\* The n projects the source returns for a request at offset off.
CataloguePage(off, n) == [j \in 1..n |-> SourceRecord(off + j)]

\* The page sizes the source of Spec answers a request for `limit` records
\* with: near 0, near the limit, up to Over beyond it, and a full batch
\* whatever the limit.
PageSizes(limit) ==
    {n \in 0..(limit + Over) : n <= PageSlack \/ n >= limit - PageSlack}
        \cup {batch_size}

\* The projects the source of SpecAgg draws its short pages from.
SmallRecords ==
    { Project(Obj, PyStr("NCI"), PyStr("R01"), Obj, PyStr("MIT"), PyInt(2020), PyInt(100), Title(CancerImaging)),
      Project(Obj, PyStr("NIDDK"), PyStr("U01"), Obj, PyStr("UCSF"), PyInt(2019), PyInt(100), Title(DiabetesGenomics)),
      Project(Obj, PyStr("NIDDK"), PyStr("R01"), Obj, PyStr("MIT"), PyInt(2020), PyInt(200), Title(CancerPrevention)),
      Project(Obj, PyStr("NCI"), PyStr("U01"), Obj, PyStr("UCSF"), PyInt(2021), Absent, Title(WithMri)),
      \* no agency, no organization, no activity code, a null amount, no title
      Project(Absent, Absent, Absent, Absent, Absent, PyInt(2020), None, NoTitle),
      \* agency and organization objects without their code / name
      Project(Obj, Absent, PyStr("R01"), Obj, Absent, PyInt(2019), PyInt(200), Title(CancerImaging)),
      \* empty-string agency code and organization name
      Project(Obj, PyStr(""), PyStr("U01"), Obj, PyStr(""), PyInt(2020), PyInt(100), Title(<<>>)),
      \* a null agency object
      Project(None, Absent, PyStr("R01"), Obj, PyStr("MIT"), PyInt(2020), PyInt(100), Title(CancerImaging)),
      \* a null organization object
      Project(Obj, PyStr("NCI"), PyStr("R01"), None, Absent, PyInt(2020), PyInt(100), Title(CancerImaging)),
      \* no fiscal year
      Project(Obj, PyStr("NCI"), PyStr("R01"), Obj, PyStr("MIT"), Absent, PyInt(200), Title(DiabetesGenomics)) }

RECURSIVE SeqsUpTo(_, _)
SeqsUpTo(S, n) ==
    IF n = 0 THEN {<<>>}
    ELSE LET shorter == SeqsUpTo(S, n - 1)
         IN shorter \cup {Append(s, r) : s \in shorter, r \in S}

SmallPages == SeqsUpTo(SmallRecords, MaxRecs)

-----------------------------------------------------------------------------
(* Grouping keys and amounts (lines 667-698). *)

\* p.get("agency_ic_admin", {}).get("code", "Unknown"): a null
\* agency_ic_admin is None, and None has no get.
AgencyKey(p) ==
    IF p.agency_ic_admin.t = "absent" THEN PyStr("Unknown")
    ELSE IF p.agency_ic_admin.t = "none" THEN Raise("AttributeError")
    ELSE DictGet(p.agency_code, PyStr("Unknown"))

\* p.get("activity_code", "Unknown")
ActivityKey(p) == DictGet(p.activity_code, PyStr("Unknown"))

\* p.get("organization", {}).get("org_name", "Unknown")
OrgKey(p) ==
    IF p.organization.t = "absent" THEN PyStr("Unknown")
    ELSE IF p.organization.t = "none" THEN Raise("AttributeError")
    ELSE DictGet(p.org_name, PyStr("Unknown"))

\* p.get("fiscal_year", "Unknown")
YearKey(p) == DictGet(p.fiscal_year, PyStr("Unknown"))

\* p.get("award_amount") or 0
Amount(p) == IF p.award_amount.t = "int" THEN p.award_amount.n ELSE 0

\* sum(f[lo..hi]), split in halves to keep the evaluation shallow.
RECURSIVE SumRange(_, _, _)
SumRange(f, lo, hi) ==
    IF lo > hi THEN 0
    ELSE IF lo = hi THEN f[lo]
    ELSE LET mid == (lo + hi) \div 2
         IN SumRange(f, lo, mid) + SumRange(f, mid + 1, hi)

\* The index at which k is first met in keys.
FirstIndex(keys, k) ==
    CHOOSE i \in 1..Len(keys) : keys[i] = k /\ \A j \in 1..(i - 1) : keys[j] # k

\* The elements of a set of integers, ascending.
Ascending(S) ==
    [r \in 1..Cardinality(S) |-> CHOOSE i \in S : Cardinality({j \in S : j < i}) = r - 1]

PickAll(keys, indices) == [r \in 1..Len(indices) |-> keys[indices[r]]]

\* The distinct elements of keys, in the order they are first met: the
\* insertion order of a dict filled key by key.
KeyOrder(keys) ==
    PickAll(keys, Ascending({FirstIndex(keys, k) : k \in {keys[i] : i \in 1..Len(keys)}}))

\* Item, had the loop overwritten the entry of a key instead of adding to it.
ItemOverwritten(keys, amounts, k) ==
    [key |-> k,
     count |-> 1,
     funding |-> amounts[CHOOSE i \in 1..Len(keys) :
                             keys[i] = k /\ \A j \in (i + 1)..Len(keys) : keys[j] # k]]

\* by_x[k] once the loop is over: the number of the records with key k and
\* the sum of their amounts.
Item(keys, amounts, k) ==
    [key |-> k,
     count |-> Cardinality({i \in 1..Len(keys) : keys[i] = k}),
     funding |-> SumRange([i \in 1..Len(keys) |-> IF keys[i] = k THEN amounts[i] ELSE 0],
                          1, Len(keys))]

Items(keys, amounts, order) ==
    [r \in 1..Len(order) |-> Item(keys, amounts, order[r])]

\* The defaultdict a grouping loop leaves behind, as the sequence of its
\* items in insertion order.
Tally(keys, amounts) == Items(keys, amounts, KeyOrder(keys))

Counts(keys, order) ==
    [r \in 1..Len(order) |->
        [key |-> order[r],
         count |-> Cardinality({i \in 1..Len(keys) : keys[i] = order[r]})]]

\* title_words, a defaultdict(int), as the sequence of its items in
\* insertion order.
Counter(keys) == Counts(keys, KeyOrder(keys))

-----------------------------------------------------------------------------
(* sorted(): stable; reverse=True keeps the original order of equal items. *)

\* SortedDesc, had the list been sorted ascending and then reversed: equal
\* sort keys come out in reverse order.
SortedDescTiesReversed(items, vals) ==
    [p \in 1..Len(items) |->
        items[CHOOSE i \in 1..Len(items) :
                  p = 1 + Cardinality({j \in 1..Len(items) :
                              \/ vals[j] > vals[i]
                              \/ vals[j] = vals[i] /\ j > i})]]

\* sorted(items, key=..., reverse=True), vals[i] being the sort key of
\* items[i]: descending, items with equal sort keys in their original order.
SortedDesc(items, vals) ==
    [p \in 1..Len(items) |->
        items[CHOOSE i \in 1..Len(items) :
                  p = 1 + Cardinality({j \in 1..Len(items) :
                              \/ vals[j] > vals[i]
                              \/ vals[j] = vals[i] /\ j < i})]]

\* key=lambda x: x[1]["funding"]
Fundings(items) == [i \in 1..Len(items) |-> items[i].funding]
\* key=lambda x: x[1]
Frequencies(items) == [i \in 1..Len(items) |-> items[i].count]

\* a < b is defined between two ints (and between two strs); anything else
\* raises TypeError.
Orderable(a, b) == a.t = b.t /\ a.t \in {"int", "str"}

\* Whether sorted(by_year.items()) raises: the items are (key, dict) tuples
\* with distinct keys, so sorting two or more compares keys with each other.
SortRaises(items) ==
    \E i, j \in 1..Len(items) : i # j /\ ~Orderable(items[i].key, items[j].key)

\* a < b for two keys sorted() can order.  No project of the model carries
\* a str fiscal year, so two distinct str keys are never compared.
PyLess(a, b) == a.t = "int" /\ b.t = "int" /\ a.n < b.n

\* sorted(items) where it does not raise: ascending by key.
SortedByKey(items) ==
    [p \in 1..Len(items) |->
        items[CHOOSE i \in 1..Len(items) :
                  p = 1 + Cardinality({j \in 1..Len(items) :
                              PyLess(items[j].key, items[i].key)})]]

\* Take, had the slice kept one item more.
TakeOneMore(s, k) == SubSeq(s, 1, Min(k + 1, Len(s)))

\* s[:k]
Take(s, k) == SubSeq(s, 1, Min(k, Len(s)))

-----------------------------------------------------------------------------
(* The words of the titles (lines 700-716). *)

UpperCase == <<"A", "B", "C", "D", "E", "F", "G", "H", "I", "J", "K", "L", "M", "N", "O", "P", "Q", "R", "S", "T", "U", "V", "W", "X", "Y", "Z">>
LowerCase == <<"a", "b", "c", "d", "e", "f", "g", "h", "i", "j", "k", "l", "m", "n", "o", "p", "q", "r", "s", "t", "u", "v", "w", "x", "y", "z">>
Digits == <<"0", "1", "2", "3", "4", "5", "6", "7", "8", "9">>

Range(s) == {s[i] : i \in 1..Len(s)}

UpperSet == Range(UpperCase)
AlnumSet == Range(UpperCase) \cup Range(LowerCase) \cup Range(Digits)
ToLower == [c \in UpperSet |-> LowerCase[CHOOSE i \in 1..Len(UpperCase) : UpperCase[i] = c]]

\* str.lower(), one character
LowerChar(c) == IF c \in UpperSet THEN ToLower[c] ELSE c

Lower(cs) == [i \in 1..Len(cs) |-> LowerChar(cs[i])]

IsSpace(c) == c \in {" ", "\t", "\n"}
IsAlnum(c) == c \in AlnumSet

\* str.split(): the maximal runs of non-space characters, in order.
Split(cs) ==
    LET n == Len(cs)
        starts == {i \in 1..n : ~IsSpace(cs[i]) /\ (i = 1 \/ IsSpace(cs[i - 1]))}
        start(r) == CHOOSE i \in starts : Cardinality({j \in starts : j < i}) = r - 1
        stop(i) == CHOOSE j \in i..n :
                       /\ j = n \/ IsSpace(cs[j + 1])
                       /\ \A k \in i..j : ~IsSpace(cs[k])
    IN [r \in 1..Cardinality(starts) |-> SubSeq(cs, start(r), stop(start(r)))]

\* ''.join(c for c in word if c.isalnum())
Clean(word) == SelectSeq(word, IsAlnum)

stop_words ==
    {<<"t", "h", "e">>, <<"a">>, <<"a", "n">>, <<"a", "n", "d">>, <<"o", "r">>,
     <<"b", "u", "t">>, <<"i", "n">>, <<"o", "n">>, <<"a", "t">>, <<"t", "o">>,
     <<"f", "o", "r">>, <<"o", "f">>, <<"w", "i", "t", "h">>, <<"b", "y">>,
     <<"f", "r", "o", "m">>, <<"a", "s">>, <<"i", "s">>, <<"w", "a", "s">>,
     <<"a", "r", "e">>, <<"w", "e", "r", "e">>, <<"b", "e", "e", "n">>,
     <<"b", "e">>, <<"h", "a", "v", "e">>, <<"h", "a", "s">>, <<"h", "a", "d">>,
     <<"d", "o">>, <<"d", "o", "e", "s">>, <<"d", "i", "d">>,
     <<"w", "i", "l", "l">>, <<"w", "o", "u", "l", "d">>,
     <<"c", "o", "u", "l", "d">>, <<"s", "h", "o", "u", "l", "d">>,
     <<"m", "a", "y">>, <<"m", "i", "g", "h", "t">>, <<"c", "a", "n">>}

\* Qualifies, had words of three characters been kept.
QualifiesFromThree(word) == Len(word) >= 3 /\ word \notin stop_words

\* len(word) > 3 and word not in stop_words
Qualifies(word) == Len(word) > 3 /\ word \notin stop_words

\* The words one title adds to title_words, in order.  An absent title
\* reads as ""; the caller has excluded a null one.
TitleTokens(p) ==
    LET words == Split(Lower(p.project_title.chars))
    IN SelectSeq([r \in 1..Len(words) |-> Clean(words[r])], Qualifies)

\* The counted words of all[lo..hi], in title order then word order.
RECURSIVE Tokens(_, _, _)
Tokens(all, lo, hi) ==
    IF lo > hi THEN <<>>
    ELSE IF lo = hi THEN TitleTokens(all[lo])
    ELSE LET mid == (lo + hi) \div 2
         IN Tokens(all, lo, mid) \o Tokens(all, mid + 1, hi)

-----------------------------------------------------------------------------
(* The handler. *)

\* ErrorReport, had call_tool caught ValueError only: any other exception
\* escapes it.
ErrorReportOnlyValueError(exception) ==
    [kind |-> IF exception = "ValueError" THEN "error" ELSE "raised",
     exception |-> exception]

\* What call_tool hands back when the handler raises: one "Error: ..." text.
ErrorReport(exception) == [kind |-> "error", exception |-> exception]
NoResult == [kind |-> "none"]

\* AverageAward without its guard against an empty set.
AverageAwardUnguarded(total_funding, total_projects) ==
    [num |-> total_funding, den |-> total_projects]

\* total_funding / total_projects if total_projects > 0 else 0, as the exact
\* quotient num / den.
AverageAward(total_funding, total_projects) ==
    IF total_projects > 0
    THEN [num |-> total_funding, den |-> total_projects]
    ELSE [num |-> 0, den |-> 1]

TopOrganization(item) ==
    [name |-> item.key, projects |-> item.count, total_funding |-> item.funding]

Theme(item) == [word |-> item.key, frequency |-> item.count]

\* The returned dict (lines 718-744); each grouping is the sequence of its
\* items in the order the dict holds them.  The echoed date_range, a copy
\* of two arguments, is left out.
Summary(total_projects, total_funding, mp, agency, activity, top_orgs, year, common_themes) ==
    [kind |-> "summary",
     total_projects |-> total_projects,
     total_funding |-> total_funding,
     average_award |-> AverageAward(total_funding, total_projects),
     by_agency |-> SortedDesc(agency, Fundings(agency)),
     by_activity_code |-> SortedDesc(activity, Fundings(activity)),
     top_organizations |-> [i \in 1..Len(top_orgs) |-> TopOrganization(top_orgs[i])],
     by_fiscal_year |-> SortedByKey(year),
     common_themes |-> [i \in 1..Len(common_themes) |-> Theme(common_themes[i])],
     note_analyzed |-> total_projects,
     note_requested |-> mp]

Unbuilt == <<>>

Amounts(all) == [i \in 1..Len(all) |-> Amount(all[i])]

\* Lines 665-744 given the accumulators the loops build: the accumulators
\* as they stand when the handler returns or raises (a loop that raises
\* leaves its accumulator, and those after it, unbuilt), and what the
\* caller gets.
Outcome(all, mp, agency, activity, org, year, words) ==
    IF \E i \in 1..Len(all) : AgencyKey(all[i]).t = "raise"
    THEN [by_agency |-> Unbuilt, by_activity |-> Unbuilt, by_org |-> Unbuilt,
          by_year |-> Unbuilt, title_words |-> Unbuilt,
          result |-> ErrorReport("AttributeError")]
    ELSE IF \E i \in 1..Len(all) : OrgKey(all[i]).t = "raise"
    THEN [by_agency |-> agency, by_activity |-> activity, by_org |-> Unbuilt,
          by_year |-> Unbuilt, title_words |-> Unbuilt,
          result |-> ErrorReport("AttributeError")]
    ELSE IF \E i \in 1..Len(all) : all[i].project_title.t = "none"
    THEN [by_agency |-> agency, by_activity |-> activity, by_org |-> org,
          by_year |-> year, title_words |-> Unbuilt,
          result |-> ErrorReport("AttributeError")]
    ELSE [by_agency |-> agency, by_activity |-> activity, by_org |-> org,
          by_year |-> year, title_words |-> words,
          result |-> IF SortRaises(year)
                     THEN ErrorReport("TypeError")
                     ELSE Summary(Len(all),
                                  SumRange(Amounts(all), 1, Len(all)),
                                  mp, agency, activity,
                                  Take(SortedDesc(org, Fundings(org)), TopOrgs),
                                  year,
                                  Take(SortedDesc(words, Frequencies(words)), TopThemes))]

\* Lines 665-744 on the retrieved set `all`.
Aggregate(all, mp) ==
    Outcome(all, mp,
            Tally([i \in 1..Len(all) |-> AgencyKey(all[i])], Amounts(all)),
            Tally([i \in 1..Len(all) |-> ActivityKey(all[i])], Amounts(all)),
            Tally([i \in 1..Len(all) |-> OrgKey(all[i])], Amounts(all)),
            Tally([i \in 1..Len(all) |-> YearKey(all[i])], Amounts(all)),
            Counter(Tokens(all, 1, Len(all))))

\* max_projects = min(args.get("max_projects", 500), 2000)
EffectiveMax(a) ==
    Min(IF a.has_max THEN a.max_projects ELSE DefaultMaxProjects, HardCap)

\* Payload, had the limit not been clamped to what is left under the cap.
PayloadUnclamped(off, mp) == [offset |-> off, limit |-> batch_size]

\* The payload of the request at offset off (lines 640-651).
Payload(off, mp) == [offset |-> off, limit |-> Min(batch_size, mp - off)]

\* The loop's next iteration: make_nih_api_request is entered.
SendRequest(off, mp) ==
    /\ requests' = Append(requests, Payload(off, mp))
    /\ offset' = off
    /\ pc' = "waiting"
    /\ UNCHANGED <<by_agency, by_activity, by_org, by_year, title_words, result>>

\* The handler returns or raises with the outcome `out`.
Finish(out) ==
    /\ by_agency' = out.by_agency
    /\ by_activity' = out.by_activity
    /\ by_org' = out.by_org
    /\ by_year' = out.by_year
    /\ title_words' = out.title_words
    /\ result' = out.result
    /\ pc' = IF out.result.kind = "summary" THEN "done" ELSE "error"
    /\ UNCHANGED <<offset, requests>>

\* The loop is over with `all` retrieved: aggregate and return (or raise).
Return(all, mp) == Finish(Aggregate(all, mp))

\* InRange, had the range included its end.
InRangeInclusive(off, mp) == off <= mp

\* range(0, max_projects, batch_size) holds off
InRange(off, mp) == off < mp

\* The call: lines 606-651, up to the first request, or to the return when
\* the range is empty.
Start ==
    /\ pc = "start"
    /\ invoked' = Append(invoked, "analyze_research_trends")
    /\ max_projects' = EffectiveMax(args)
    /\ IF InRange(0, EffectiveMax(args))
       THEN SendRequest(0, EffectiveMax(args))
       ELSE Return(<<>>, EffectiveMax(args))
    /\ UNCHANGED <<args, all_projects, responses, other>>

\* Continues, without the break on a short page.
ContinuesUnlessEmpty(n) == n # 0

\* Whether the loop goes on after a page of n projects (lines 656-663).
Continues(n) == n # 0 /\ ~(n < batch_size)

\* The source answers with a body holding the list `page` under "results"
\* (lines 653-663, then the next request or the return).
ReceivePage(page) ==
    /\ pc = "waiting"
    /\ responses' = Append(responses, [kind |-> "page", n |-> Len(page)])
    /\ LET all == IF Len(page) = 0 THEN all_projects ELSE all_projects \o page
       IN /\ all_projects' = all
          /\ IF Continues(Len(page)) /\ InRange(offset + batch_size, max_projects)
             THEN SendRequest(offset + batch_size, max_projects)
             ELSE Return(all, max_projects)
    /\ UNCHANGED <<args, max_projects, invoked, other>>

\* The source answers with a JSON object that has no "results" (or a null
\* one): response.get("results", []) is falsy and the loop breaks.
ReceiveNoResults ==
    /\ pc = "waiting"
    /\ responses' = Append(responses, [kind |-> "no_results", n |-> 0])
    /\ Return(all_projects, max_projects)
    /\ UNCHANGED <<args, max_projects, all_projects, invoked, other>>

\* The request fails: a RequestException (network, HTTP status, a body that
\* is not JSON) re-raised by make_nih_api_request, or a JSON body that is
\* not an object, on which response.get raises.  The handler raises.
FailureKinds == {"request_exception", "not_an_object"}

ReceiveFailure(kind) ==
    /\ pc = "waiting"
    /\ responses' = Append(responses, [kind |-> kind, n |-> 0])
    /\ result' = ErrorReport(IF kind = "request_exception" THEN "Exception" ELSE "AttributeError")
    /\ pc' = "error"
    /\ UNCHANGED <<args, max_projects, offset, all_projects, requests,
                   by_agency, by_activity, by_org, by_year, title_words,
                   invoked, other>>

-----------------------------------------------------------------------------
(* The other handlers and call_tool (lines 349-603). *)

ToolNames ==
    {"search_projects", "get_project_details", "search_recent_awards",
     "search_by_investigator", "get_spending_categories",
     "search_projects_light", "analyze_research_trends"}

\* args.get(key) is not None
Provided(v) == v.t \notin {"absent", "none"}

\* DetailsRejection, had only the call without either argument been refused.
DetailsRejectionNeitherOnly(has_project_num, has_appl_id) ==
    IF ~has_project_num /\ ~has_appl_id THEN "ValueError" ELSE ""

\* The exception the validation of get_project_details raises (lines
\* 444-447), "" when it raises none.
DetailsRejection(has_project_num, has_appl_id) ==
    IF has_project_num /\ has_appl_id THEN "ValueError"
    ELSE IF ~has_project_num /\ ~has_appl_id THEN "ValueError"
    ELSE ""

\* The payload of get_project_details (lines 449-468).
DetailsPayload(a) ==
    [offset |-> 0, limit |-> 1,
     criteria |-> IF Provided(a.project_num) THEN "project_nums" ELSE "appl_ids"]

\* The handler raises before it has sent a request.
Raises(exception) ==
    /\ result' = ErrorReport(exception)
    /\ pc' = "error"
    /\ UNCHANGED requests

\* The handler enters make_nih_api_request with its one request.
SendOnly(payload) ==
    /\ requests' = Append(requests, payload)
    /\ pc' = "requested"
    /\ UNCHANGED result

\* The handler is entered: call_tool has picked it by name.
Enter(name) ==
    /\ pc = "start"
    /\ invoked' = Append(invoked, name)
    /\ UNCHANGED <<args, max_projects, offset, all_projects, responses,
                   by_agency, by_activity, by_org, by_year, title_words, other>>

get_project_details ==
    /\ Enter("get_project_details")
    /\ IF DetailsRejection(Provided(args.project_num), Provided(args.appl_id)) # ""
       THEN Raises(DetailsRejection(Provided(args.project_num), Provided(args.appl_id)))
       ELSE SendOnly(DetailsPayload(args))

\* min(args.get("limit", 25), 500): a limit that is no number cannot be
\* compared with 500.
SearchLimitRaises(a) == a.limit.t \notin {"absent", "int"}

SearchLimit(a) == Min(IF a.limit.t = "int" THEN a.limit.n ELSE 25, 500)

\* search_projects (lines 378-435); the calls of the model pass no offset.
search_projects ==
    /\ Enter("search_projects")
    /\ IF SearchLimitRaises(args)
       THEN Raises("TypeError")
       ELSE SendOnly([offset |-> 0, limit |-> SearchLimit(args), criteria |-> "search"])

\* search_projects_light (lines 548-603)
search_projects_light ==
    /\ Enter("search_projects_light")
    /\ IF SearchLimitRaises(args)
       THEN Raises("TypeError")
       ELSE SendOnly([offset |-> 0, limit |-> SearchLimit(args), criteria |-> "search"])

\* search_recent_awards (lines 473-502): the limit goes out as given; the
\* calls of the model pass no days and an integer limit or none.
search_recent_awards ==
    /\ Enter("search_recent_awards")
    /\ SendOnly([offset |-> 0,
                 limit |-> IF args.limit.t = "int" THEN args.limit.n ELSE 50,
                 criteria |-> "award_notice_date"])

\* search_by_investigator (lines 505-527): args["last_name"] raises
\* KeyError when the key is absent.
search_by_investigator ==
    /\ Enter("search_by_investigator")
    /\ IF args.last_name.t = "absent"
       THEN Raises("KeyError")
       ELSE SendOnly([offset |-> 0,
                      limit |-> IF args.limit.t = "int" THEN args.limit.n ELSE 25,
                      criteria |-> "pi_names"])

\* get_spending_categories (lines 530-545) returns a fixed dict.
get_spending_categories ==
    /\ Enter("get_spending_categories")
    /\ result' = [kind |-> "body", json |-> "object"]
    /\ pc' = "done"
    /\ UNCHANGED requests

\* raise ValueError(f"Unknown tool: {name}"): no handler is entered.
UnknownTool ==
    /\ pc = "start"
    /\ Raises("ValueError")
    /\ UNCHANGED <<args, max_projects, offset, all_projects, responses,
                   by_agency, by_activity, by_org, by_year, title_words,
                   invoked, other>>

\* call_tool up to the handler's first request or to its return (lines
\* 353-375).
call_tool ==
    \/ args.tool = "search_projects" /\ search_projects
    \/ args.tool = "get_project_details" /\ get_project_details
    \/ args.tool = "search_recent_awards" /\ search_recent_awards
    \/ args.tool = "search_by_investigator" /\ search_by_investigator
    \/ args.tool = "get_spending_categories" /\ get_spending_categories
    \/ args.tool = "search_projects_light" /\ search_projects_light
    \/ args.tool = "analyze_research_trends" /\ Start
    \/ args.tool \notin ToolNames /\ UnknownTool

\* What response.json() may be: the handlers with one request return it
\* unread.
BodyKinds == {"object", "array"}

\* The request of a handler with one request is answered with a JSON body:
\* the handler returns it.
ReceiveBody(body) ==
    /\ pc = "requested"
    /\ responses' = Append(responses, [kind |-> "body", n |-> 0])
    /\ result' = [kind |-> "body", json |-> body]
    /\ pc' = "done"
    /\ UNCHANGED <<args, max_projects, offset, all_projects, requests,
                   by_agency, by_activity, by_org, by_year, title_words,
                   invoked, other>>

\* The request of a handler with one request fails: make_nih_api_request
\* raises and so does the handler.
FailBody ==
    /\ pc = "requested"
    /\ responses' = Append(responses, [kind |-> "request_exception", n |-> 0])
    /\ result' = ErrorReport("Exception")
    /\ pc' = "error"
    /\ UNCHANGED <<args, max_projects, offset, all_projects, requests,
                   by_agency, by_activity, by_org, by_year, title_words,
                   invoked, other>>

\* json.dumps(result, indent=2), as the characters the text starts with and
\* the value it encodes: "{" for a dict, "[" for a list.
JsonDumps(r) ==
    [prefix |-> IF r.kind = "body" /\ r.json = "array" THEN "[" ELSE "{",
     value |-> r]

\* What call_tool returns for the outcome r (lines 370 and 375): one
\* TextContent; nothing when the exception escaped it.
TextContents(r) ==
    IF r.kind = "error"
    THEN <<[type |-> "text", text |-> [prefix |-> "Error: ", value |-> r]]>>
    ELSE IF r.kind \in {"summary", "body"}
    THEN <<[type |-> "text", text |-> JsonDumps(r)]>>
    ELSE <<>>

-----------------------------------------------------------------------------
(* Two invocations (lines 747-751: the server dispatches every request to   *)
(* a call of call_tool of its own).                                         *)

\* The state of the invocation that runs.
Locals ==
    [args |-> args, max_projects |-> max_projects, pc |-> pc, offset |-> offset,
     all_projects |-> all_projects, requests |-> requests, responses |-> responses,
     by_agency |-> by_agency, by_activity |-> by_activity, by_org |-> by_org,
     by_year |-> by_year, title_words |-> title_words, result |-> result,
     invoked |-> invoked]

\* The state of an invocation that call_tool has not yet dispatched.
FreshLocals(a) ==
    [args |-> a, max_projects |-> 0, pc |-> "start", offset |-> 0,
     all_projects |-> <<>>, requests |-> <<>>, responses |-> <<>>,
     by_agency |-> <<>>, by_activity |-> <<>>, by_org |-> <<>>,
     by_year |-> <<>>, title_words |-> <<>>, result |-> NoResult,
     invoked |-> <<>>]

\* Resume, had all_projects been a list of the module that every invocation
\* appends to.
ResumeSharingRetrievedSet(f) ==
    /\ args' = f.args
    /\ max_projects' = f.max_projects
    /\ pc' = f.pc
    /\ offset' = f.offset
    /\ all_projects' = all_projects
    /\ requests' = f.requests
    /\ responses' = f.responses
    /\ by_agency' = f.by_agency
    /\ by_activity' = f.by_activity
    /\ by_org' = f.by_org
    /\ by_year' = f.by_year
    /\ title_words' = f.title_words
    /\ result' = f.result
    /\ invoked' = f.invoked

\* The invocation with the state f runs on.  All that a handler builds is
\* held in its locals (lines 608, 635-637, 666-716) and the module holds
\* no mutable state (lines 19-27), so an invocation finds everything as it
\* left it.
Resume(f) ==
    /\ args' = f.args
    /\ max_projects' = f.max_projects
    /\ pc' = f.pc
    /\ offset' = f.offset
    /\ all_projects' = f.all_projects
    /\ requests' = f.requests
    /\ responses' = f.responses
    /\ by_agency' = f.by_agency
    /\ by_activity' = f.by_activity
    /\ by_org' = f.by_org
    /\ by_year' = f.by_year
    /\ title_words' = f.title_words
    /\ result' = f.result
    /\ invoked' = f.invoked

\* The server turns to its other invocation.  The switch may come wherever
\* the running invocation stands between two steps: before its call,
\* at a page fetch, or after its return.  That covers the schedules of the
\* event loop, which runs one handler to its end before the next because
\* requests.post does not yield, and those in which a page fetch suspends
\* the handler.
Switch ==
    /\ other.id # 0
    /\ Resume(other.locals)
    /\ other' = [id |-> 3 - other.id, locals |-> Locals]

-----------------------------------------------------------------------------
(* Specifications. *)

\* The max_projects arguments tried.
MaxProjectsInputs == {-1, 0, 1, 50, 500, 501, 1000, 2500}

DefaultArgs == [has_max |-> FALSE, max_projects |-> 0]
ArgChoices == {DefaultArgs} \cup {[has_max |-> TRUE, max_projects |-> v] : v \in MaxProjectsInputs}

\* No second invocation.
NoOther == [id |-> 0, locals |-> <<>>]

\* An invocation that call_tool has not yet dispatched, with arguments a.
InitLocals(a) ==
    /\ args = a
    /\ max_projects = 0
    /\ pc = "start"
    /\ offset = 0
    /\ all_projects = <<>>
    /\ requests = <<>>
    /\ responses = <<>>
    /\ by_agency = <<>>
    /\ by_activity = <<>>
    /\ by_org = <<>>
    /\ by_year = <<>>
    /\ title_words = <<>>
    /\ result = NoResult
    /\ invoked = <<>>

InitWith(a) == InitLocals(a) /\ other = NoOther

Init == \E a \in ArgChoices : InitWith(a)

\* A page of the catalogue, of any of the sizes the source may answer with.
ReceiveCataloguePage ==
    /\ pc = "waiting"
    /\ \E n \in PageSizes(requests[Len(requests)].limit) :
           ReceivePage(CataloguePage(offset, n))

FailRequest == \E kind \in FailureKinds : ReceiveFailure(kind)

Next == Start \/ ReceiveCataloguePage \/ ReceiveNoResults \/ FailRequest

\* Any call, against a source that serves the catalogue page by page.
Spec == Init /\ [][Next]_vars

\* A short first page of arbitrary projects.
ReceiveSmallPage == \E page \in SmallPages : ReceivePage(page)

NextAgg == Start \/ ReceiveSmallPage

\* A default call whose first page is short: every retrieved set of up to
\* MaxRecs projects is aggregated.
SpecAgg == InitWith(DefaultArgs) /\ [][NextAgg]_vars

\* Organization names of the records served in SpecTop.
OrgNames ==
    <<"MIT", "UCSF", "STANFORD", "YALE", "DUKE", "EMORY", "BROWN", "RICE",
      "TUFTS", "BAYLOR", "CORNELL", "HARVARD", "PURDUE", "TULANE">>

\* The i-th word of the vocabulary as a title writes it: plain, or in
\* capitals with punctuation.  Both read as the same word once lower-cased
\* and cleaned.
Written(i, form) ==
    IF form = 0
    THEN <<"g", "e", "n", "e", LowerCase[i]>>
    ELSE <<"G", "E", "N", "E", "-", UpperCase[i], ",">>

\* Words of a title that are never counted: a stop word, a short word, a
\* stop word in capitals, a word that cleans to nothing, a short word with
\* punctuation.
Fillers ==
    << <<"t", "h", "e">>, <<"o", "f">>, <<"W", "i", "t", "h">>, <<"-", "-">>,
       <<"M", "R", "I", ":">> >>

\* The title of the j-th record of a page over a vocabulary of v words.
RankedTitle(j, v) ==
    Written(((3 * j - 3) % v) + 1, j % 2) \o <<" ">>
        \o Fillers[(j % Len(Fillers)) + 1] \o <<" ", "\t">>
        \o Written(((3 * j - 2) % v) + 1, 0) \o <<" ">>
        \o Written(((3 * j - 1) % v) + 1, 1)

\* The j-th record of a page spread over d organizations and v words, with
\* amounts in the pattern a; every fifth record has no title, every seventh
\* no amount.
RankedRecord(j, d, v, a) ==
    Project(Obj, PyStr("NCI"), PyStr("R01"),
            Obj, PyStr(OrgNames[((j - 1) % d) + 1]),
            PyInt(2020),
            IF j % 7 = 0 THEN Absent ELSE PyInt((1 + ((j * a) % 3)) * 100),
            IF j % 5 = 0 THEN NoTitle ELSE Title(RankedTitle(j, v)))

RankedPage(len, d, v, a) == [j \in 1..len |-> RankedRecord(j, d, v, a)]

\* Vocabulary sizes tried: below, at and above TopThemes.
VocabularySizes == {3, TopThemes - 1, TopThemes, TopThemes + 1, MaxWords}

\* A short first page of records spread over up to MaxOrgs organizations
\* and up to MaxWords words.
ReceiveRankedPage ==
    \E len \in 0..(MaxOrgs + 1), d \in 1..MaxOrgs, v \in VocabularySizes, a \in 1..2 :
        ReceivePage(RankedPage(len, d, v, a))

NextTop == Start \/ ReceiveRankedPage

\* A default call whose first page is short and holds more organizations
\* than top_organizations lists and more words than common_themes lists.
SpecTop == InitWith(DefaultArgs) /\ [][NextTop]_vars

\* Arguments of the calls of SpecTool.
ProjectNums == {Absent, None, PyStr(""), PyStr("5R01CA123456-05")}
ApplIds == {Absent, None, PyInt(0), PyInt(10000001)}
Limits == {Absent, PyInt(10), PyInt(900), PyStr("ten")}

BaseArgs(name) ==
    [tool |-> name, has_max |-> FALSE, max_projects |-> 0,
     project_num |-> Absent, appl_id |-> Absent, last_name |-> Absent,
     limit |-> Absent]

ToolCalls ==
    {[BaseArgs("get_project_details") EXCEPT !.project_num = p, !.appl_id = a] :
        p \in ProjectNums, a \in ApplIds}
    \cup {[BaseArgs(t) EXCEPT !.limit = l] :
             t \in {"search_projects", "search_projects_light"}, l \in Limits}
    \cup {[BaseArgs("search_recent_awards") EXCEPT !.limit = l] :
             l \in {Absent, PyInt(10)}}
    \cup {[BaseArgs("search_by_investigator") EXCEPT !.last_name = n] :
             n \in {Absent, PyStr("Smith")}}
    \cup {BaseArgs("get_spending_categories"),
          BaseArgs("analyze_research_trends"),
          [BaseArgs("analyze_research_trends") EXCEPT !.has_max = TRUE],
          BaseArgs("delete_project"),
          BaseArgs("")}

InitTool == \E a \in ToolCalls : InitWith(a)

ReceiveAnyBody == \E body \in BodyKinds : ReceiveBody(body)

NextTool ==
    \/ call_tool
    \/ ReceiveSmallPage
    \/ ReceiveNoResults
    \/ FailRequest
    \/ ReceiveAnyBody
    \/ FailBody

\* One call of call_tool, for every tool name, against a source that
\* answers or fails.
SpecTool == InitTool /\ [][NextTool]_vars

\* The arguments of the two invocations of SpecPair: one page or two.
PairArgs == {DefaultArgs, [has_max |-> TRUE, max_projects |-> batch_size + 1]}

InitPair ==
    \E a1, a2 \in PairArgs :
        /\ InitLocals(a1)
        /\ other = [id |-> 2, locals |-> FreshLocals(a2)]

\* The page sizes the source of SpecPair answers with: empty, short, full.
PairPageSizes(limit) == {0, Min(2, limit), limit}

ReceivePairPage ==
    /\ pc = "waiting"
    /\ \E n \in PairPageSizes(requests[Len(requests)].limit) :
           ReceivePage(CataloguePage(offset, n))

NextPair ==
    \/ Start
    \/ ReceivePairPage
    \/ ReceiveNoResults
    \/ FailRequest
    \/ Switch

\* Two invocations of analyze_research_trends, interleaved in any way.
SpecPair == InitPair /\ [][NextPair]_vars

-----------------------------------------------------------------------------
(* Properties of the retrieval loop, checked under Spec. *)

Max(a, b) == IF a < b THEN b ELSE a

\* The handler has returned or raised.
Finished == pc \in {"done", "error"}

\* Every response so far is a page of at most the requested number of records.
SourceHonoursLimit ==
    \A i \in 1..Len(responses) :
        responses[i].kind = "page" /\ responses[i].n <= requests[i].limit

\* Every response so far is a page.
OnlyPages == \A i \in 1..Len(responses) : responses[i].kind = "page"

\* The effective cap of the call, min(requested maximum, 2000).
EffectiveCap ==
    Min(IF args.has_max THEN args.max_projects ELSE DefaultMaxProjects, HardCap)

\* The records of the pages received so far, in receipt order.
RECURSIVE PagesUpTo(_)
PagesUpTo(i) ==
    IF i = 0 THEN <<>>
    ELSE PagesUpTo(i - 1) \o
         (IF responses[i].kind = "page"
          THEN CataloguePage(requests[i].offset, responses[i].n)
          ELSE <<>>)

\* C1 as stated: against a source that returns at most `limit` records per
\* request, the retrieved set never holds more than the effective cap
\* min(max_projects, 2000) records, whatever max_projects is.
C1_Original ==
    (pc # "start" /\ SourceHonoursLimit) => Len(all_projects) <= EffectiveCap

\* C1, amended: against a source that returns at most `limit` records per
\* request, the retrieved set never holds more than max(0, effective cap)
\* records, after every page append and when the summary is built (a
\* negative max_projects gives a negative cap and an empty set).
C1_CapRespected ==
    SourceHonoursLimit =>
        /\ Len(all_projects) <= Max(0, EffectiveCap)
        /\ pc = "done" => result.total_projects <= Max(0, EffectiveCap)

\* An honest source has filled the retrieved set up to the hard ceiling.
C1_Witness ==
    /\ SourceHonoursLimit
    /\ pc = "done"
    /\ Len(responses) = 4
    /\ args.has_max /\ args.max_projects > HardCap
    /\ Len(all_projects) = HardCap

\* C2: with max_projects = 50 and a source that answers every request with
\* exactly 500 records, the call makes exactly one request and its summary
\* counts exactly 50 projects.
C2_FiftyOfFiveHundred ==
    ( /\ args.has_max /\ args.max_projects = 50
      /\ Finished
      /\ Len(responses) >= 1
      /\ \A i \in 1..Len(responses) :
             responses[i].kind = "page" /\ responses[i].n = 500 )
    => /\ Len(requests) = 1
       /\ result.kind = "summary"
       /\ result.total_projects = 50
       /\ Len(all_projects) = 50

\* C3: a page of zero records, or of fewer records than the limit requested
\* for it, is the last one requested; the retrieved set is exactly the
\* records of the pages received, in order (an empty page adds nothing, a
\* short page is appended), and the handler does not wait for another page.
C3_EarlyTermination ==
    /\ \A i \in 1..Len(responses) :
           ( /\ responses[i].kind = "page"
             /\ responses[i].n = 0 \/ responses[i].n < requests[i].limit )
           => Len(requests) = i /\ Finished
    /\ OnlyPages => all_projects = PagesUpTo(Len(responses))

\* Page two came back empty: the set is page one's records, no third request.
C3_Witness ==
    /\ Len(responses) = 2
    /\ responses[1].kind = "page" /\ responses[1].n = batch_size
    /\ responses[2].kind = "page" /\ responses[2].n = 0
    /\ all_projects = CataloguePage(0, batch_size)
    /\ Len(requests) = 2
    /\ pc = "done"

\* C4: the requests of a call go out one at a time at offsets 0, 500,
\* 1000, ... in increasing order, each offset once, each with
\* limit = min(500, effective cap - offset), which lies in 1..500; a request
\* is sent only once every earlier one was answered with a full page; so a
\* call makes at most 4 requests, and none when max_projects <= 0.
C4_SequentialRequests ==
    /\ \A i \in 1..Len(requests) :
           /\ requests[i].offset = (i - 1) * 500
           /\ requests[i].limit = Min(500, EffectiveCap - requests[i].offset)
           /\ requests[i].limit \in 1..500
    /\ Len(responses) <= Len(requests)
    /\ Len(requests) <= Len(responses) + 1
    /\ (pc = "waiting") = (Len(requests) = Len(responses) + 1)
    /\ \A i \in 1..(Len(requests) - 1) :
           responses[i].kind = "page" /\ responses[i].n >= 500
    /\ Len(requests) <= 4
    /\ (args.has_max /\ args.max_projects <= 0) => requests = <<>>

\* The fourth request is out, after three full pages.
C4_Witness ==
    /\ Len(requests) = 4
    /\ Len(responses) = 3
    /\ requests[4] = [offset |-> 1500, limit |-> 500]
    /\ pc = "waiting"

\* C5: when the source fails on a page (a network or HTTP error, or a
\* malformed response such as a body without a results list), the call
\* aborts: that request is the last one, no summary is returned, and the
\* caller gets an error report.
C5_FailureAborts ==
    \A i \in 1..Len(responses) :
        responses[i].kind # "page"
        => /\ Len(requests) = i
           /\ pc = "error"
           /\ result.kind = "error"

\* C7: an empty retrieved set is not an error.  When no page is requested,
\* or the first page holds zero records, the call returns a summary with
\* total_projects = 0, total_funding = 0, average_award exactly 0, and empty
\* by_agency, by_activity_code, top_organizations, by_fiscal_year and
\* common_themes.
C7_EmptyIsNotAnError ==
    ( /\ Finished
      /\ \/ requests = <<>>
         \/ responses = <<[kind |-> "page", n |-> 0]>> )
    => /\ pc = "done"
       /\ result.kind = "summary"
       /\ result.total_projects = 0
       /\ result.total_funding = 0
       /\ result.average_award = [num |-> 0, den |-> 1]
       /\ result.by_agency = <<>>
       /\ result.by_activity_code = <<>>
       /\ result.top_organizations = <<>>
       /\ result.by_fiscal_year = <<>>
       /\ result.common_themes = <<>>

\* The first page of a default call came back empty.
C7_Witness ==
    /\ pc = "done"
    /\ ~args.has_max
    /\ responses = <<[kind |-> "page", n |-> 0]>>
    /\ all_projects = <<>>
    /\ result.kind = "summary"

-----------------------------------------------------------------------------
(* Properties of the aggregation, checked under SpecAgg. *)

\* The four grouping loops have run to their end (the handler returned, or
\* raised only afterwards, in sorted()).
AccumulatorsBuilt ==
    \/ pc = "done"
    \/ pc = "error" /\ result.exception = "TypeError"

\* The award amount of a record, an absent or null one counting as 0.
AwardOrZero(p) == IF p.award_amount.t = "int" THEN p.award_amount.n ELSE 0

RECURSIVE TotalAward(_)
TotalAward(projects) ==
    IF projects = <<>> THEN 0
    ELSE AwardOrZero(Head(projects)) + TotalAward(Tail(projects))

RECURSIVE SumCounts(_)
SumCounts(items) ==
    IF items = <<>> THEN 0 ELSE Head(items).count + SumCounts(Tail(items))

RECURSIVE SumFunding(_)
SumFunding(items) ==
    IF items = <<>> THEN 0 ELSE Head(items).funding + SumFunding(Tail(items))

\* The counts and the funding of a grouping add up to the totals.
Reconciles(items) ==
    /\ SumCounts(items) = Len(all_projects)
    /\ SumFunding(items) = TotalAward(all_projects)

\* The number of items of a grouping that hold the key k.
ItemsWithKey(items, k) == Cardinality({r \in 1..Len(items) : items[r].key = k})

\* C6: in each of the four groupings (agency, activity code, organization,
\* fiscal year) the counts add up to total_projects and the funding adds up
\* to total_funding, an absent or null award amount counting as 0, and every
\* record falls under exactly one key of each grouping.
C6_GroupsReconcile ==
    AccumulatorsBuilt =>
        /\ Reconciles(by_agency)
        /\ Reconciles(by_activity)
        /\ Reconciles(by_org)
        /\ Reconciles(by_year)
        /\ \A i \in 1..Len(all_projects) :
               /\ ItemsWithKey(by_agency, AgencyKey(all_projects[i])) = 1
               /\ ItemsWithKey(by_activity, ActivityKey(all_projects[i])) = 1
               /\ ItemsWithKey(by_org, OrgKey(all_projects[i])) = 1
               /\ ItemsWithKey(by_year, YearKey(all_projects[i])) = 1
        /\ pc = "done" =>
               /\ result.total_projects = Len(all_projects)
               /\ result.total_funding = TotalAward(all_projects)

\* Three records in two agencies, one of them without an award amount, have
\* been summarised.
C6_Witness ==
    /\ pc = "done"
    /\ Len(all_projects) = 3
    /\ \E i \in 1..3 : all_projects[i].award_amount.t # "int"
    /\ Len(by_agency) = 2
    /\ \E r \in 1..2 : by_agency[r].count = 2
    /\ result.total_funding > 0

\* The agency code of a record is absent (no agency object, a null one, or
\* one without a code) or the empty string.
NoAgencyCode(p) ==
    \/ p.agency_ic_admin.t \in {"absent", "none"}
    \/ p.agency_code.t = "absent"
    \/ p.agency_code = PyStr("")

\* The organization name of a record is absent or the empty string.
NoOrgName(p) ==
    \/ p.organization.t \in {"absent", "none"}
    \/ p.org_name.t = "absent"
    \/ p.org_name = PyStr("")

\* The number of records a grouping holds under "Unknown".
UnknownCount(items) ==
    IF \E r \in 1..Len(items) : items[r].key = PyStr("Unknown")
    THEN items[CHOOSE r \in 1..Len(items) : items[r].key = PyStr("Unknown")].count
    ELSE 0

\* C8: a record whose agency code / organization name is absent (a missing
\* or null enclosing object included) or the empty string is grouped under
\* "Unknown" in that dimension, and the call still returns a summary.  (No
\* record of the model carries the literal code or name "Unknown", and the
\* records here all carry an integer fiscal year.)
C8_UnknownForAbsentOrEmpty ==
    ( /\ Finished
      /\ \A i \in 1..Len(all_projects) : all_projects[i].fiscal_year.t = "int" )
    => /\ result.kind = "summary"
       /\ UnknownCount(by_agency) =
              Cardinality({i \in 1..Len(all_projects) : NoAgencyCode(all_projects[i])})
       /\ UnknownCount(by_org) =
              Cardinality({i \in 1..Len(all_projects) : NoOrgName(all_projects[i])})

\* The keys of a grouping are integers in ascending order, except that the
\* key "Unknown" may stand anywhere.
YearsAscending(items) ==
    \A i, j \in 1..Len(items) :
        (i < j /\ items[i].key.t = "int" /\ items[j].key.t = "int")
        => items[i].key.n < items[j].key.n

\* C9: for a retrieved set whose records carry an integer fiscal year or
\* none (grouped under "Unknown"), sets that mix the two included, the call
\* returns a summary whose by_fiscal_year is sorted ascending by year.
\* (The records here all have an agency and an organization that is not
\* null.)
C9_FiscalYearsSorted ==
    ( /\ Finished
      /\ \A i \in 1..Len(all_projects) :
             /\ all_projects[i].fiscal_year.t \in {"int", "absent"}
             /\ all_projects[i].agency_ic_admin.t # "none"
             /\ all_projects[i].organization.t # "none" )
    => /\ result.kind = "summary"
       /\ YearsAscending(result.by_fiscal_year)

\* The index in the retrieved set of the first record filed under key k.
FirstWithAgency(k) ==
    CHOOSE i \in 1..Len(all_projects) :
        /\ AgencyKey(all_projects[i]) = k
        /\ \A j \in 1..(i - 1) : AgencyKey(all_projects[j]) # k

FirstWithActivity(k) ==
    CHOOSE i \in 1..Len(all_projects) :
        /\ ActivityKey(all_projects[i]) = k
        /\ \A j \in 1..(i - 1) : ActivityKey(all_projects[j]) # k

\* C10: by_agency and by_activity_code are emitted in non-increasing order
\* of funding, and of two keys with equal funding the one met first in the
\* retrieved set comes first.
C10_FundingDescendingStable ==
    pc = "done" =>
        /\ \A i, j \in 1..Len(result.by_agency) :
               i < j =>
                   \/ result.by_agency[i].funding > result.by_agency[j].funding
                   \/ /\ result.by_agency[i].funding = result.by_agency[j].funding
                      /\ FirstWithAgency(result.by_agency[i].key)
                             < FirstWithAgency(result.by_agency[j].key)
        /\ \A i, j \in 1..Len(result.by_activity_code) :
               i < j =>
                   \/ result.by_activity_code[i].funding > result.by_activity_code[j].funding
                   \/ /\ result.by_activity_code[i].funding = result.by_activity_code[j].funding
                      /\ FirstWithActivity(result.by_activity_code[i].key)
                             < FirstWithActivity(result.by_activity_code[j].key)
        /\ Len(result.by_agency) = Len(by_agency)
        /\ Len(result.by_activity_code) = Len(by_activity)

\* Three agencies: the best funded was met last and comes first, the other
\* two tie and keep the order in which they were met.
C10_Witness ==
    /\ pc = "done"
    /\ Len(result.by_agency) = 3
    /\ result.by_agency[1].key = by_agency[3].key
    /\ result.by_agency[2].key = by_agency[1].key
    /\ result.by_agency[3].key = by_agency[2].key
    /\ result.by_agency[2].funding = result.by_agency[3].funding
    /\ result.by_agency[1].funding > result.by_agency[2].funding

-----------------------------------------------------------------------------
(* Properties of the ranking and of the themes, checked under SpecTop. *)

\* The organization keys of the retrieved set.
OrgKeys == {OrgKey(all_projects[i]) : i \in 1..Len(all_projects)}

\* The records of the retrieved set filed under organization k.
OrgProjects(k) == {i \in 1..Len(all_projects) : OrgKey(all_projects[i]) = k}

\* The awards of the records with index in S, added up.
RECURSIVE AwardOver(_)
AwardOver(S) ==
    IF S = {} THEN 0
    ELSE LET i == CHOOSE x \in S : TRUE
         IN AwardOrZero(all_projects[i]) + AwardOver(S \ {i})

\* The index of the first record filed under organization k.
FirstWithOrg(k) == CHOOSE i \in OrgProjects(k) : \A j \in OrgProjects(k) : i <= j

\* The organizations top_organizations lists.
Listed(top) == {top[i].name : i \in 1..Len(top)}

\* top is ranked by funding, ties in first-met order, and each entry holds
\* the count and the funding of its organization.
RankedOrganizations(top) ==
    /\ \A i, j \in 1..Len(top) :
           i < j =>
               \/ top[i].total_funding > top[j].total_funding
               \/ /\ top[i].total_funding = top[j].total_funding
                  /\ FirstWithOrg(top[i].name) < FirstWithOrg(top[j].name)
    /\ \A i \in 1..Len(top) :
           /\ top[i].name \in OrgKeys
           /\ top[i].projects = Cardinality(OrgProjects(top[i].name))
           /\ top[i].total_funding = AwardOver(OrgProjects(top[i].name))
           /\ \E r \in 1..Len(by_org) :
                  /\ by_org[r].key = top[i].name
                  /\ by_org[r].count = top[i].projects
                  /\ by_org[r].funding = top[i].total_funding

\* No organization left out of top has more funding than one it lists.
NoneOmittedAbove(top) ==
    \A k \in OrgKeys \ Listed(top) :
        \A i \in 1..Len(top) : AwardOver(OrgProjects(k)) <= top[i].total_funding

\* C11: top_organizations has length min(10, number of distinct organization
\* keys), is sorted non-increasing by total funding with ties in
\* first-encountered order, each entry's project count and funding equal
\* that organization's accumulator, and no omitted organization has strictly
\* more funding than any listed one.
C11_TopOrganizations ==
    pc = "done" =>
        /\ Len(result.top_organizations) = Min(10, Cardinality(OrgKeys))
        /\ RankedOrganizations(result.top_organizations)
        /\ NoneOmittedAbove(result.top_organizations)

\* Twelve organizations were retrieved: ten are listed, the best funded with
\* two projects, two of the listed tie, and of the two left out one ties
\* with the last listed and one has less.
C11_Witness ==
    /\ pc = "done"
    /\ Cardinality(OrgKeys) = 12
    /\ Len(result.top_organizations) = 10
    /\ result.top_organizations[1].projects = 2
    /\ result.top_organizations[2].total_funding = result.top_organizations[3].total_funding
    /\ \E k \in OrgKeys \ Listed(result.top_organizations) :
           AwardOver(OrgProjects(k)) = result.top_organizations[10].total_funding
    /\ \E k \in OrgKeys \ Listed(result.top_organizations) :
           AwardOver(OrgProjects(k)) < result.top_organizations[10].total_funding

\* The words of the title of record p, lower-cased and cleaned, in order;
\* a record without a title has none.
CleanEach(words) == [r \in 1..Len(words) |-> Clean(words[r])]

CleanedWords(p) ==
    IF p.project_title.t # "str" THEN <<>>
    ELSE CleanEach(Split(Lower(p.project_title.chars)))

\* The cleaned words of every title of a set, record by record.
AllCleanedWords(projects) == [i \in 1..Len(projects) |-> CleanedWords(projects[i])]

\* The places (record, word) where w stands in the titles.
OccursAt(words, w) ==
    UNION {{<<i, r>> : r \in {x \in 1..Len(words[i]) : words[i][x] = w}} :
              i \in 1..Len(words)}

\* The distinct words of the titles that are longer than three characters
\* and are no stop word.
QualifyingTokens(words) ==
    {w \in UNION {Range(words[i]) : i \in 1..Len(words)} :
        Len(w) > 3 /\ w \notin stop_words}

\* w1 is first met before w2: in an earlier title, or earlier in the same.
MetBefore(words, w1, w2) ==
    \E p1 \in OccursAt(words, w1) :
        \A p2 \in OccursAt(words, w2) :
            p1[1] < p2[1] \/ (p1[1] = p2[1] /\ p1[2] < p2[2])

ThemesOf(themes, words) ==
    /\ Len(themes) = Min(20, Cardinality(QualifyingTokens(words)))
    /\ \A i, j \in 1..Len(themes) :
           i < j =>
               \/ themes[i].frequency > themes[j].frequency
               \/ /\ themes[i].frequency = themes[j].frequency
                  /\ MetBefore(words, themes[i].word, themes[j].word)
    /\ \A i \in 1..Len(themes) :
           /\ Len(themes[i].word) > 3
           /\ themes[i].word \notin stop_words
           /\ themes[i].frequency = Cardinality(OccursAt(words, themes[i].word))
           /\ themes[i].frequency >= 1

\* C12: common_themes has length min(20, number of distinct qualifying
\* tokens), is sorted non-increasing by frequency with ties in
\* first-occurrence order (title order, then word order within a title),
\* contains no token of length <= 3 and no stop word, and each reported
\* frequency equals the number of occurrences of that cleaned, lower-cased
\* token across all titles of the retrieved set.
C12_CommonThemes ==
    pc = "done" => ThemesOf(result.common_themes, AllCleanedWords(all_projects))

\* Twenty-two qualifying words were retrieved, written in capitals with
\* punctuation and plainly, next to stop words and short words: twenty are
\* listed, "genea" first with its two occurrences, "genem" last.
C12_Witness ==
    /\ pc = "done"
    /\ Cardinality(QualifyingTokens(AllCleanedWords(all_projects))) = 22
    /\ Len(result.common_themes) = 20
    /\ result.common_themes[1] = [word |-> <<"g", "e", "n", "e", "a">>, frequency |-> 2]
    /\ result.common_themes[11].frequency = 2
    /\ result.common_themes[12] = [word |-> <<"g", "e", "n", "e", "f">>, frequency |-> 1]
    /\ result.common_themes[20] = [word |-> <<"g", "e", "n", "e", "m">>, frequency |-> 1]
    /\ \E i \in 1..Len(all_projects) :
           /\ all_projects[i].project_title.t = "str"
           /\ \E r \in 1..Len(all_projects[i].project_title.chars) :
                  all_projects[i].project_title.chars[r] = "M"

-----------------------------------------------------------------------------
(* Properties of call_tool and of get_project_details, checked under       *)
(* SpecTool.                                                               *)

\* The call is one of get_project_details.
DetailsCall == args.tool = "get_project_details"

\* An argument is provided when its key is present with a value other than
\* null.
BothProvided == Provided(args.project_num) /\ Provided(args.appl_id)
NeitherProvided == ~Provided(args.project_num) /\ ~Provided(args.appl_id)

\* C13: get_project_details rejects the call before any request is sent to
\* the source when both project_num and appl_id are provided and when
\* neither is provided; exactly one request (limit 1, offset 0) is sent when
\* exactly one of them is provided.
C13_ExactlyOneIdentifier ==
    (DetailsCall /\ pc # "start") =>
        IF BothProvided \/ NeitherProvided
        THEN /\ requests = <<>>
             /\ responses = <<>>
             /\ pc = "error"
             /\ result = [kind |-> "error", exception |-> "ValueError"]
        ELSE /\ Len(requests) = 1
             /\ requests[1].offset = 0
             /\ requests[1].limit = 1
             /\ requests[1].criteria =
                    (IF Provided(args.project_num) THEN "project_nums" ELSE "appl_ids")
             /\ Len(responses) <= 1

\* A call with both a project number and an application id (0, which is
\* not null) has been refused without a request.
C13_Witness ==
    /\ DetailsCall
    /\ args.project_num = PyStr("5R01CA123456-05")
    /\ args.appl_id = PyInt(0)
    /\ pc = "error"
    /\ requests = <<>>
    /\ invoked = <<"get_project_details">>

\* A failure the call meets: an unknown tool name, a rejected input, a
\* failed request, or a retrieved record the aggregation raises on.
UnknownName == args.tool \notin ToolNames

InputRejected ==
    \/ DetailsCall /\ (BothProvided \/ NeitherProvided)
    \/ args.tool \in {"search_projects", "search_projects_light"}
           /\ args.limit.t \notin {"absent", "int"}
    \/ args.tool = "search_by_investigator" /\ args.last_name.t = "absent"

RetrievalFailed ==
    \E i \in 1..Len(responses) :
        responses[i].kind \in {"request_exception", "not_an_object"}

AggregationRaised ==
    /\ pc = "error"
    /\ responses # <<>>
    /\ \A i \in 1..Len(responses) : responses[i].kind \in {"page", "no_results"}

\* C15: call_tool never raises to its caller: for every tool name and every
\* handler outcome it returns exactly one text item, which is the
\* JSON-encoded result on success and a text starting with "Error: " on any
\* failure (unknown tool name, input rejection, retrieval failure, or an
\* exception during aggregation); a failure is reported once and no handler
\* is invoked a second time.
C15_CallToolAlwaysReplies ==
    /\ result.kind # "raised"
    /\ Len(invoked) <= 1
    /\ \A i \in 1..Len(invoked) : invoked[i] = args.tool
    /\ (pc # "start" /\ ~UnknownName) => invoked = <<args.tool>>
    /\ ~Finished => result = NoResult
    /\ Finished =>
           /\ Len(TextContents(result)) = 1
           /\ TextContents(result)[1].type = "text"
           /\ IF UnknownName \/ InputRejected \/ RetrievalFailed \/ AggregationRaised
              THEN /\ TextContents(result)[1].text.prefix = "Error: "
                   /\ pc = "error"
              ELSE /\ TextContents(result)[1].text = JsonDumps(result)
                   /\ TextContents(result)[1].text.prefix \in {"{", "["}
                   /\ result.kind \in {"summary", "body"}
                   /\ pc = "done"

\* analyze_research_trends retrieved a page and raised while aggregating it:
\* the caller has one "Error: " text and the handler ran once.
C15_Witness ==
    /\ args.tool = "analyze_research_trends"
    /\ pc = "error"
    /\ Len(all_projects) = 2
    /\ result = [kind |-> "error", exception |-> "TypeError"]
    /\ TextContents(result) =
           <<[type |-> "text", text |-> [prefix |-> "Error: ", value |-> result]]>>
    /\ invoked = <<"analyze_research_trends">>

-----------------------------------------------------------------------------
(* Properties of two interleaved invocations, checked under SpecPair. *)

\* The number of requests an invocation with the arguments a has sent once
\* it has got the responses resps, when it runs alone.
LoneRequestCount(a, resps) ==
    IF resps = <<>>
    THEN (IF InRange(0, EffectiveMax(a)) THEN 1 ELSE 0)
    ELSE IF /\ resps[Len(resps)].kind = "page"
            /\ Continues(resps[Len(resps)].n)
            /\ InRange(Len(resps) * batch_size, EffectiveMax(a))
    THEN Len(resps) + 1
    ELSE Len(resps)

\* The records of the pages among resps[1..i], the k-th response answering
\* the request at offset (k - 1) * 500.
RECURSIVE LonePages(_, _)
LonePages(resps, i) ==
    IF i = 0 THEN <<>>
    ELSE LonePages(resps, i - 1) \o
         (IF resps[i].kind = "page"
          THEN CataloguePage((i - 1) * batch_size, resps[i].n)
          ELSE <<>>)

\* What the caller has of an invocation that ran alone, sent m requests, got
\* the responses resps, and ended with the outcome out of its aggregation.
LoneResult(resps, m, out) ==
    IF m > Len(resps) THEN NoResult
    ELSE IF resps # <<>> /\ resps[Len(resps)].kind = "request_exception"
    THEN [kind |-> "error", exception |-> "Exception"]
    ELSE IF resps # <<>> /\ resps[Len(resps)].kind = "not_an_object"
    THEN [kind |-> "error", exception |-> "AttributeError"]
    ELSE out.result

\* The state f of a dispatched invocation is the one it has when it runs
\* alone and gets the responses f.responses: m is the number of requests of
\* the lone run, out the outcome of aggregating the pages it retrieved.
AsAlone(f, m, out) ==
    /\ \A i \in 1..(Len(f.responses) - 1) :
           f.responses[i].kind = "page" /\ Continues(f.responses[i].n)
    /\ f.max_projects = EffectiveMax(f.args)
    /\ f.requests =
           [k \in 1..m |-> [offset |-> (k - 1) * batch_size,
                            limit |-> Min(batch_size,
                                          EffectiveMax(f.args) - (k - 1) * batch_size)]]
    /\ f.all_projects = LonePages(f.responses, Len(f.responses))
    /\ f.result = LoneResult(f.responses, m, out)
    /\ (f.pc = "waiting") = (m > Len(f.responses))
    /\ f.result.kind = "summary" =>
           /\ f.pc = "done"
           /\ f.by_agency = out.by_agency
           /\ f.by_activity = out.by_activity
           /\ f.by_org = out.by_org
           /\ f.by_year = out.by_year
           /\ f.title_words = out.title_words
    /\ f.invoked = <<"analyze_research_trends">>

\* The state f of an invocation owes nothing to the other invocation.
OwnsItsState(f) ==
    IF f.pc = "start"
    THEN f = FreshLocals(f.args)
    ELSE AsAlone(f,
                 LoneRequestCount(f.args, f.responses),
                 Aggregate(LonePages(f.responses, Len(f.responses)),
                           EffectiveMax(f.args)))

\* C14: concurrent invocations of analyze_research_trends share no mutable
\* state: each owns its own retrieved set, accumulators and token table, so
\* under any interleaving of two invocations at their page-fetch steps each
\* invocation's result equals the result it produces when run alone against
\* the same page responses; no state persists from one invocation to the
\* next.
C14_InvocationsIndependent ==
    /\ OwnsItsState(Locals)
    /\ OwnsItsState(other.locals)

\* The first invocation was suspended at its second page fetch, 500 records
\* retrieved; the second has since run both its fetches and returned the
\* summary of its own 501 records.
C14_Witness ==
    /\ other.id = 1
    /\ other.locals.pc = "waiting"
    /\ Len(other.locals.requests) = 2
    /\ Len(other.locals.all_projects) = batch_size
    /\ pc = "done"
    /\ Len(responses) = 2
    /\ Len(all_projects) = batch_size + 1
    /\ result.kind = "summary"
    /\ result.total_projects = batch_size + 1

=============================================================================
